---- MODULE Spec2Model ----
(***************************************************************************)
(* Model of etcdctl make-mirror                                            *)
(* (etcdctl/ctlv3/command/make_mirror_command.go).                         *)
(*                                                                         *)
(* Strings are sequences of one-character strings.  The change source      *)
(* (mirror.Syncer) and the target store (the destination client) are the   *)
(* environment: the source chooses the snapshot chunks, the watch          *)
(* responses and its error signal, the target chooses whether a Put or a   *)
(* Txn succeeds.  Every call made to the target is logged in calls.        *)
(* The reporting goroutine only reads total (atomic.LoadInt64) and prints  *)
(* it; it changes no state of the run and is left out.                     *)
(***************************************************************************)
EXTENDS Integers, Sequences, FiniteSets

\* ------------------------------------------------------------------ bounds
MaxTxnOps == 2      \* largest --max-txn-ops drawn
MaxStartRev == 2    \* largest --rev drawn
MaxRevisions == 2   \* distinct revisions the watch can deliver
MaxInputs == 2      \* snapshot pairs plus events delivered over a run of Spec
MaxWatchEvents == 3 \* events delivered over a run of SpecWatch
RevBits == 5        \* bits kept of the int64 revisions (64 in the code)

\* ----------------------------------------------------------- input domains
Prefixes == {<<>>, <<"a">>}
DestPrefixes == {<<>>, <<"b">>}
\* what follows the prefix in a source key; <<"a">> makes the key "aa"
\* under prefix "a", so that the prefix occurs twice in it
Suffixes == {<<"a">>, <<"x">>}
Values == {<<"v">>}
\* math.MinInt64 and math.MaxInt64, at the width the model keeps
MinInt64 == 0 - 2 ^ (RevBits - 1)
MaxInt64 == 2 ^ (RevBits - 1) - 1
Revs == {MinInt64} \cup ((0 - 1) .. MaxStartRev)
ArgCounts == 0 .. 2
TargetErrors == {"ErrTarget1", "ErrTarget2"}
SourceErrors == {"ErrSource1", "ErrSource2"}
\* WatchResponse.CompactRevision: 0 when the response is not a compaction
CompactRevisions == {0, 1}

VARIABLES
    nargs,           \* len(args)
    mmprefix,        \* --prefix
    mmdestprefix,    \* --dest-prefix (rewritten by makeMirror)
    destFlag,        \* history: --dest-prefix as given on the command line
    mmnodestprefix,  \* --no-dest-prefix
    mmrev,           \* --rev
    mmmaxTxnOps,     \* --max-txn-ops
    pc,              \* position of the main flow
    clients,         \* client connections made (mustClient, mustClientFromCmd)
    startRev,        \* makeMirror's startRev, handed to mirror.NewSyncer
    syncBase,        \* TRUE once s.SyncBase was called
    syncUpdates,     \* TRUE once s.SyncUpdates was called
    total,           \* the progress counter
    kvs,             \* pairs of the current snapshot response not yet put
    chunks,          \* history: every pair delivered by the snapshot so far
    evs,             \* events of the current watch response not yet examined
    seen,            \* history: events of the current response examined
    classified,      \* history: events that reached the switch as PUT/DELETE,
                     \*   each with first = TRUE iff it began its response
    lastRev,         \* makeMirror's lastRev
    ops,             \* makeMirror's ops, the pending group
    calls,           \* history: every Put / Txn issued to the target
    err,             \* the error the run ended with ("" = nil)
    signal,          \* history: a response with CompactRevision != 0 came
    srcErr,          \* history: what was read from errc ("" = nil or unread)
    fuel             \* pairs and events the source may still deliver

vars == <<nargs, mmprefix, mmdestprefix, mmnodestprefix, mmrev, mmmaxTxnOps,
          pc, clients, startRev, syncBase, syncUpdates, total, kvs, chunks,
          evs, seen, classified, lastRev, ops, calls, err, fuel, destFlag,
          signal, srcErr>>

cfgVars == <<nargs, mmprefix, mmnodestprefix, mmrev, mmmaxTxnOps, destFlag>>

\* ------------------------------------------------------------ pure helpers
\* strings.Index: the first position at which old occurs in s, 0 if none
Index(s, old) ==
    LET hits == {i \in 1 .. (Len(s) - Len(old) + 1) :
                    SubSeq(s, i, i + Len(old) - 1) = old}
    IN  IF hits = {} THEN 0
        ELSE CHOOSE i \in hits : \A j \in hits : i <= j

\* strings.Replace(s, old, new, 1): an empty old matches at the beginning
Replace1(s, old, new) ==
    IF old = <<>> THEN new \o s
    ELSE LET i == Index(s, old)
         IN  IF i = 0 THEN s
             ELSE SubSeq(s, 1, i - 1) \o new \o SubSeq(s, i + Len(old), Len(s))

\* modifyPrefix with the prefixes passed explicitly
ModifyPrefixWith(key, prefix, dest) == Replace1(key, prefix, dest)

\* mutation of modifyPrefix: the key is written as it came
modifyPrefixNone(key) == key

\* modifyPrefix, reading the globals
modifyPrefix(key) == ModifyPrefixWith(key, mmprefix, mmdestprefix)

OpPut(key, val) == [t |-> "put", key |-> key, val |-> val]
OpDelete(key) == [t |-> "del", key |-> key, val |-> <<>>]

\* one logged call to the target: dc.Put (ops has one Put) or dc.Txn
PutCall(key, val, e) == [kind |-> "put", ops |-> <<OpPut(key, val)>>, err |-> e]
TxnCall(o, e) == [kind |-> "txn", ops |-> o, err |-> e]

\* mutation of Failed: the result of a Put or a commit is not looked at
NeverFailed(e) == FALSE

\* err != nil
Failed(e) == e # ""

\* mutation of ErrcFailed: the source's error signal is not looked at
ErrcIgnored(e) == FALSE

\* err := <-errc; if err != nil
ErrcFailed(e) == e # ""

\* mutation of AddInt64: the counter is incremented twice
AddInt64Twice(t, d) == t + d + d

\* mutation of AddInt64: the update is lost
AddInt64Lost(t, d) == t

\* atomic.AddInt64(&total, d)
AddInt64(t, d) == t + d

\* mutation of BoundaryFlush: a new revision never commits the group
BoundaryFlushNever(last, next) == FALSE

\* mutation of BoundaryFlush: commits on every event after the first
BoundaryFlushEager(last, next) == last # 0 /\ next >= last

\* if lastRev != 0 && nextRev > lastRev
BoundaryFlush(last, next) == last # 0 /\ next > last

\* mutation of SizeFlush: the size of the group is never looked at
SizeFlushNever(o, m) == FALSE

\* mutation of SizeFlush: lets the group grow one operation too far
SizeFlushLate(o, m) == Len(o) = m + 1

\* if len(ops) == int(mmmaxTxnOps)
SizeFlush(o, m) == Len(o) = m

\* mutation of AppendOp: puts the new operation first
PrependOp(o, op) == <<op>> \o o

\* ops = append(ops, op)
AppendOp(o, op) == Append(o, op)

\* mutation of Compacted: the compaction notice is not looked at
NeverCompacted(wr) == FALSE

\* if wr.CompactRevision != 0
Compacted(wr) == wr.CompactRevision # 0

\* an int64 result: Go's signed arithmetic wraps around
Wrap64(x) == ((x - MinInt64) % (2 ^ RevBits)) + MinInt64

\* startRev := mmrev - 1; if startRev < 0 { startRev = 0 }
StartRevOf(rev) == IF Wrap64(rev - 1) < 0 THEN 0 ELSE Wrap64(rev - 1)

\* mutation of KvsDone: the snapshot loop is left with pairs still to put
KvsLeftBehind(k) == TRUE

\* for _, kv := range r.Kvs has run over every pair of the response
KvsDone(k) == k = <<>>

\* mutation of NeedFinalFlush: the group left at the end of a response is
\* not committed
NoFinalFlush(o) == FALSE

\* mutation of NeedFinalFlush: a commit at the end of every response
AlwaysFinalFlush(o) == TRUE

\* if len(ops) != 0, after the last event of a response
NeedFinalFlush(o) == Len(o) # 0

\* mutation of Known: the default case of the switch is never taken
KnownAll(ev) == TRUE

\* switch ev.Type: case mvccpb.PUT, case mvccpb.DELETE; anything else
\* falls into default: panic("unexpected event type")
Known(ev) == ev.typ \in {"PUT", "DELETE"}

\* the operation the switch derives from a PUT / DELETE event
OpOf(ev, prefix, dest) ==
    IF ev.typ = "PUT" THEN OpPut(ModifyPrefixWith(ev.key, prefix, dest), ev.val)
    ELSE OpDelete(ModifyPrefixWith(ev.key, prefix, dest))

\* --------------------------------------------------------------- the source
\* keys the source can produce: it is scoped to mmprefix (WithPrefix)
SourceKeys == {mmprefix \o s : s \in Suffixes}

KvSet == [key : SourceKeys, val : Values]

\* the watch is opened at revision startRev + 1 (mirror.Syncer.SyncUpdates):
\* the events carry that revision or a later one, and no revision is
\* above math.MaxInt64
EventRevs ==
    {r \in (startRev + 1) .. (startRev + MaxRevisions) : r <= MaxInt64}

\* an event of an unknown type is drawn with one key: the code never reads it
EventSet ==
    [typ : {"PUT"}, key : SourceKeys, val : Values, rev : EventRevs]
    \cup [typ : {"DELETE"}, key : SourceKeys, val : {<<>>}, rev : EventRevs]
    \cup [typ : {"OTHER"}, key : {mmprefix \o <<"x">>}, val : {<<>>},
          rev : EventRevs]

\* the revision of the last event delivered so far (events come in
\* non-decreasing ModRevision order)
SourceRev ==
    IF classified = <<>> THEN startRev + 1
    ELSE classified[Len(classified)].ev.rev

NonDecreasing(s, from) ==
    /\ \A i \in 1 .. Len(s) : s[i].rev >= from
    /\ \A i \in 1 .. (Len(s) - 1) : s[i].rev <= s[i + 1].rev

SeqsUpTo(S, n) == UNION {[1 .. k -> S] : k \in 0 .. n}

\* what the watch can deliver next: a compaction notice, which carries no
\* events, or up to fuel events continuing the revision order
WatchResponses ==
    [CompactRevision : CompactRevisions \ {0}, Events : {<<>>}]
    \cup {[CompactRevision |-> 0, Events |-> b] :
             b \in {x \in SeqsUpTo(EventSet, fuel) : NonDecreasing(x, SourceRev)}}

\* ------------------------------------------------------------------- Init
Init ==
    /\ nargs \in ArgCounts
    /\ mmprefix \in Prefixes
    /\ mmdestprefix \in DestPrefixes
    /\ destFlag = mmdestprefix
    /\ mmnodestprefix \in BOOLEAN
    /\ mmrev \in Revs
    /\ mmmaxTxnOps \in 0 .. MaxTxnOps
    /\ pc = "cmd"
    /\ clients = 0
    /\ startRev = 0
    /\ syncBase = FALSE
    /\ syncUpdates = FALSE
    /\ total = 0
    /\ kvs = <<>>
    /\ chunks = <<>>
    /\ evs = <<>>
    /\ seen = 0
    /\ classified = <<>>
    /\ lastRev = 0
    /\ ops = <<>>
    /\ calls = <<>>
    /\ err = ""
    /\ signal = FALSE
    /\ srcErr = ""
    /\ fuel = MaxInputs

\* ---------------------------------------------------------------- actions
\* makeMirrorCommandFunc up to the call of makeMirror
CommandFunc ==
    /\ pc = "cmd"
    /\ IF nargs # 1
       THEN /\ pc' = "exit"
            /\ err' = "ExitBadArgs"
            /\ UNCHANGED clients
       ELSE /\ pc' = "mirror"
            /\ clients' = 2
            /\ UNCHANGED err
    /\ UNCHANGED <<cfgVars, mmdestprefix, startRev, syncBase, syncUpdates,
                   total, kvs, chunks, evs, seen, classified, lastRev, ops,
                   calls, fuel, signal,
                   srcErr>>

\* makeMirror from its entry to the first wait on the source
Start ==
    /\ pc = "mirror"
    /\ IF mmnodestprefix /\ Len(mmdestprefix) > 0
       THEN /\ pc' = "exit"
            /\ err' = "ExitBadArgs"
            /\ UNCHANGED <<mmdestprefix, startRev, syncBase, syncUpdates>>
       ELSE /\ startRev' = StartRevOf(mmrev)
            /\ UNCHANGED err
            /\ IF startRev' = 0
               THEN /\ syncBase' = TRUE
                    /\ mmdestprefix' =
                          IF ~mmnodestprefix /\ Len(mmdestprefix) = 0
                          THEN mmprefix ELSE mmdestprefix
                    /\ pc' = "snapshot"
                    /\ UNCHANGED syncUpdates
               ELSE /\ syncUpdates' = TRUE
                    /\ pc' = "watch"
                    /\ UNCHANGED <<mmdestprefix, syncBase>>
    /\ UNCHANGED <<cfgVars, clients, total, kvs, chunks, evs, seen,
                   classified, lastRev, ops, calls, fuel, signal,
                   srcErr>>

\* for r := range rc: the source delivers one snapshot response
RecvChunk ==
    /\ pc = "snapshot"
    /\ kvs = <<>>
    /\ \E r \in SeqsUpTo(KvSet, fuel) :
          /\ kvs' = r
          /\ chunks' = chunks \o r
          /\ fuel' = fuel - Len(r)
    /\ UNCHANGED <<cfgVars, mmdestprefix, pc, clients, startRev, syncBase,
                   syncUpdates, total, evs, seen, classified, lastRev, ops,
                   calls, err, signal, srcErr>>

\* the body of for _, kv := range r.Kvs
PutKv ==
    /\ pc = "snapshot"
    /\ kvs # <<>>
    /\ LET kv == Head(kvs)
       IN  \E e \in {""} \cup TargetErrors :
              /\ calls' = Append(calls, PutCall(modifyPrefix(kv.key), kv.val, e))
              /\ IF Failed(e)
                 THEN /\ pc' = "aborted"
                      /\ err' = e
                      /\ UNCHANGED <<total, kvs>>
                 ELSE /\ total' = AddInt64(total, 1)
                      /\ kvs' = Tail(kvs)
                      /\ UNCHANGED <<pc, err>>
    /\ UNCHANGED <<cfgVars, mmdestprefix, clients, startRev, syncBase,
                   syncUpdates, chunks, evs, seen, classified, lastRev, ops,
                   fuel, signal, srcErr>>

\* rc is closed; err := <-errc; on nil, wc := s.SyncUpdates(ctx)
SnapshotEnd ==
    /\ pc = "snapshot"
    /\ KvsDone(kvs)
    /\ \E e \in {""} \cup SourceErrors :
          /\ srcErr' = e
          /\ IF ErrcFailed(e)
             THEN /\ pc' = "aborted"
                  /\ err' = e
                  /\ UNCHANGED syncUpdates
             ELSE /\ pc' = "watch"
                  /\ syncUpdates' = TRUE
                  /\ UNCHANGED err
    /\ UNCHANGED <<cfgVars, mmdestprefix, clients, startRev, syncBase, total,
                   kvs, chunks, evs, seen, classified, lastRev, ops, calls, fuel,
                   signal>>

\* for wr := range wc: the source delivers one watch response
RecvBatch ==
    /\ pc = "watch"
    /\ seen' = 0
    /\ \E wr \in WatchResponses :
          /\ signal' = (signal \/ wr.CompactRevision # 0)
          /\ fuel' = fuel - Len(wr.Events)
          /\ IF Compacted(wr)
             THEN /\ pc' = "aborted"
                  /\ err' = "ErrCompacted"
                  /\ UNCHANGED <<evs, lastRev, ops>>
             ELSE /\ evs' = wr.Events
                  /\ lastRev' = 0
                  /\ ops' = <<>>
                  /\ pc' = "events"
                  /\ UNCHANGED err
    /\ UNCHANGED <<cfgVars, mmdestprefix, clients, startRev, syncBase,
                   syncUpdates, total, kvs, chunks, classified, calls, srcErr>>

\* wc is closed: return nil
WatchEnd ==
    /\ pc = "watch"
    /\ pc' = "done"
    /\ UNCHANGED <<cfgVars, mmdestprefix, clients, startRev, syncBase,
                   syncUpdates, total, kvs, chunks, evs, seen, classified,
                   lastRev, ops, calls, err, fuel, signal,
                   srcErr>>

\* the body of for _, ev := range wr.Events, for one event
\* e1: the result of the revision-boundary commit, e2: of the size commit
EventStep(ev, e1, e2) ==
    LET flush1 == BoundaryFlush(lastRev, ev.rev)
        fail1 == flush1 /\ Failed(e1)
        calls1 == IF flush1 THEN Append(calls, TxnCall(ops, e1)) ELSE calls
        ops1 == IF flush1 /\ ~fail1 THEN <<>> ELSE ops
        flush2 == ~fail1 /\ SizeFlush(ops1, mmmaxTxnOps)
        fail2 == flush2 /\ Failed(e2)
        calls2 == IF flush2 THEN Append(calls1, TxnCall(ops1, e2)) ELSE calls1
        ops2 == IF flush2 /\ ~fail2 THEN <<>> ELSE ops1
    IN  /\ calls' = calls2
        /\ IF fail1 \/ fail2
           THEN /\ pc' = "aborted"
                /\ err' = (IF fail1 THEN e1 ELSE e2)
                /\ lastRev' = (IF fail1 THEN lastRev ELSE ev.rev)
                /\ ops' = ops2
                /\ UNCHANGED <<total, evs, classified, seen>>
           ELSE IF Known(ev)
           THEN /\ ops' = AppendOp(ops2, OpOf(ev, mmprefix, mmdestprefix))
                /\ total' = AddInt64(total, 1)
                /\ lastRev' = ev.rev
                /\ evs' = Tail(evs)
                /\ classified' =
                      Append(classified, [ev |-> ev, first |-> (seen = 0)])
                /\ seen' = seen + 1
                /\ UNCHANGED <<pc, err>>
           ELSE /\ pc' = "panic"
                /\ err' = "unexpected event type"
                /\ lastRev' = ev.rev
                /\ ops' = ops2
                /\ UNCHANGED <<total, evs, classified, seen>>

ProcessEvent ==
    /\ pc = "events"
    /\ evs # <<>>
    /\ \E e1, e2 \in {""} \cup TargetErrors : EventStep(Head(evs), e1, e2)
    /\ UNCHANGED <<cfgVars, mmdestprefix, clients, startRev, syncBase,
                   syncUpdates, kvs, chunks, fuel, signal, srcErr>>

\* after the last event of the response: if len(ops) != 0 { commit }
EndBatch ==
    /\ pc = "events"
    /\ evs = <<>>
    /\ IF NeedFinalFlush(ops)
       THEN \E e \in {""} \cup TargetErrors :
               /\ calls' = Append(calls, TxnCall(ops, e))
               /\ IF Failed(e)
                  THEN /\ pc' = "aborted"
                       /\ err' = e
                       /\ UNCHANGED <<ops, lastRev, seen>>
                  ELSE /\ pc' = "watch"
                       /\ ops' = <<>>
                       /\ lastRev' = 0
                       /\ seen' = 0
                       /\ UNCHANGED err
       ELSE /\ pc' = "watch"
            /\ ops' = <<>>
            /\ lastRev' = 0
            /\ seen' = 0
            /\ UNCHANGED <<calls, err>>
    /\ UNCHANGED <<cfgVars, mmdestprefix, clients, startRev, syncBase,
                   syncUpdates, total, kvs, chunks, evs, classified, fuel, signal,
                   srcErr>>

Next ==
    \/ CommandFunc
    \/ Start
    \/ RecvChunk
    \/ PutKv
    \/ SnapshotEnd
    \/ RecvBatch
    \/ WatchEnd
    \/ ProcessEvent
    \/ EndBatch

Spec == Init /\ [][Next]_vars

\* The watch phase alone, under one prefix mapping and a start revision
\* that skips the snapshot, with a longer event stream.
InitWatch ==
    /\ nargs = 1
    /\ mmprefix = <<"a">>
    /\ mmdestprefix = <<"b">>
    /\ destFlag = mmdestprefix
    /\ mmnodestprefix = FALSE
    /\ mmrev = 2
    /\ mmmaxTxnOps \in 1 .. MaxTxnOps
    /\ pc = "cmd"
    /\ clients = 0
    /\ startRev = 0
    /\ syncBase = FALSE
    /\ syncUpdates = FALSE
    /\ total = 0
    /\ kvs = <<>>
    /\ chunks = <<>>
    /\ evs = <<>>
    /\ seen = 0
    /\ classified = <<>>
    /\ lastRev = 0
    /\ ops = <<>>
    /\ calls = <<>>
    /\ err = ""
    /\ signal = FALSE
    /\ srcErr = ""
    /\ fuel = MaxWatchEvents

NextWatch ==
    \/ CommandFunc
    \/ Start
    \/ RecvBatch
    \/ WatchEnd
    \/ ProcessEvent
    \/ EndBatch

SpecWatch == InitWatch /\ [][NextWatch]_vars

\* the incremental phase under fairness: the sequential code of the main
\* flow always takes its next step, and the change source eventually
\* closes the stream (the watch channel is closed while the loop waits)
SpecWatchFair ==
    /\ SpecWatch
    /\ WF_vars(CommandFunc)
    /\ WF_vars(Start)
    /\ WF_vars(ProcessEvent)
    /\ WF_vars(EndBatch)
    /\ SF_vars(WatchEnd)

\* ------------------------------------------------- the target's history
IsTxn(c) == c.kind = "txn"
IsPut(c) == c.kind = "put"
Succeeded(c) == c.err = ""
IsCommitted(c) == IsTxn(c) /\ Succeeded(c)
IsOkPut(c) == IsPut(c) /\ Succeeded(c)

\* the transactions committed so far, in commit order
Committed == SelectSeq(calls, IsCommitted)
\* the snapshot Puts that succeeded so far
OkPuts == SelectSeq(calls, IsOkPut)
\* the snapshot Puts issued so far, whatever their result
PutCalls == SelectSeq(calls, IsPut)
\* the commits issued so far, whatever their result
TxnCalls == SelectSeq(calls, IsTxn)
\* the main flow is past the configuration check of makeMirror
Started == pc \notin {"cmd", "mirror", "exit"}

RECURSIVE Flatten(_)
\* the operation lists of a sequence of calls, concatenated
Flatten(cs) == IF cs = <<>> THEN <<>> ELSE Head(cs).ops \o Flatten(Tail(cs))

\* the operation the claims expect for a classified event under a mapping
ExpectedOp(ev, prefix, dest) ==
    IF ev.typ = "PUT"
    THEN [t |-> "put", key |-> Replace1(ev.key, prefix, dest), val |-> ev.val]
    ELSE [t |-> "del", key |-> Replace1(ev.key, prefix, dest), val |-> <<>>]

\* the operations expected for the events classified so far
ExpectedOps(prefix, dest) ==
    [i \in 1 .. Len(classified) |-> ExpectedOp(classified[i].ev, prefix, dest)]

\* the revisions of the events classified so far
RevsSeen == {classified[i].ev.rev : i \in 1 .. Len(classified)}

\* positions in classified of the events that carry revision r
PosOfRev(r) == {i \in 1 .. Len(classified) : classified[i].ev.rev = r}

\* the events at positions P all came in one watch response
OneResponse(P) ==
    \A i \in P : (\E j \in P : j < i) => ~classified[i].first

\* operations held by the first j committed transactions
OpsBefore(j) == Len(Flatten(SubSeq(Committed, 1, j)))

\* the committed transaction that holds the operation of the i-th classified
\* event (0: none, the operation is still pending or was never committed)
TxnOfPos(i) ==
    LET hits == {j \in 1 .. Len(Committed) : OpsBefore(j - 1) < i /\ i <= OpsBefore(j)}
    IN  IF hits = {} THEN 0 ELSE CHOOSE j \in hits : TRUE

TxnsOfRev(r) == {TxnOfPos(i) : i \in PosOfRev(r)}

Ceil(a, b) == (a + b - 1) \div b

SetMin(S) == CHOOSE x \in S : \A y \in S : x <= y
SetMax(S) == CHOOSE x \in S : \A y \in S : x >= y

\* ------------------------------------------------------------------ C1
\* C1 as stated: when a run with max-txn-ops >= 1 ends without failure,
\* the events of a revision that has at most max-txn-ops events are all in
\* one committed transaction and in no other, however the source divides
\* the stream into responses.
C1_OneTxnAnyBatching ==
    (pc = "done" /\ mmmaxTxnOps >= 1) =>
        \A r \in RevsSeen :
            (PosOfRev(r) # {} /\ Cardinality(PosOfRev(r)) <= mmmaxTxnOps) =>
                /\ 0 \notin TxnsOfRev(r)
                /\ Cardinality(TxnsOfRev(r)) = 1

\* C1 amended: the same, for the revisions whose events all came in one
\* watch response.
C1_OneTxnOneResponse ==
    (pc = "done" /\ mmmaxTxnOps >= 1) =>
        \A r \in RevsSeen :
            (/\ PosOfRev(r) # {}
             /\ Cardinality(PosOfRev(r)) <= mmmaxTxnOps
             /\ OneResponse(PosOfRev(r))) =>
                /\ 0 \notin TxnsOfRev(r)
                /\ Cardinality(TxnsOfRev(r)) = 1

\* a finished run in which a revision of two events came in one response,
\* next to an event of another revision, with max-txn-ops = 2
C1_Witness ==
    /\ pc = "done"
    /\ mmmaxTxnOps = 2
    /\ Len(classified) = 3
    /\ Len(Committed) = 2
    /\ \E r \in RevsSeen :
          /\ Cardinality(PosOfRev(r)) = 2
          /\ OneResponse(PosOfRev(r))
          /\ Cardinality(TxnsOfRev(r)) = 1

\* ------------------------------------------------------------------ C2
\* the transactions of revision r, concatenated in commit order, list the
\* operations of its events in arrival order
InOrder(r) ==
    Flatten(SubSeq(Committed, SetMin(TxnsOfRev(r)), SetMax(TxnsOfRev(r))))
        = SubSeq(ExpectedOps(mmprefix, mmdestprefix),
                 SetMin(PosOfRev(r)), SetMax(PosOfRev(r)))

\* C2 as stated: when a run with max-txn-ops = M >= 1 ends without failure,
\* the events of a revision that has count > M events are committed across
\* exactly ceil(count / M) transactions, in their original order.
C2_CeilAnyBatching ==
    (pc = "done" /\ mmmaxTxnOps >= 1) =>
        \A r \in RevsSeen :
            Cardinality(PosOfRev(r)) > mmmaxTxnOps =>
                /\ 0 \notin TxnsOfRev(r)
                /\ Cardinality(TxnsOfRev(r))
                      = Ceil(Cardinality(PosOfRev(r)), mmmaxTxnOps)
                /\ InOrder(r)

\* C2 amended: the same, for the revisions whose events all came in one
\* watch response.
C2_CeilOneResponse ==
    (pc = "done" /\ mmmaxTxnOps >= 1) =>
        \A r \in RevsSeen :
            (/\ Cardinality(PosOfRev(r)) > mmmaxTxnOps
             /\ OneResponse(PosOfRev(r))) =>
                /\ 0 \notin TxnsOfRev(r)
                /\ Cardinality(TxnsOfRev(r))
                      = Ceil(Cardinality(PosOfRev(r)), mmmaxTxnOps)
                /\ InOrder(r)

\* a finished run in which three events of one revision came in one
\* response with max-txn-ops = 2: two transactions, of 2 and of 1
C2_Witness ==
    /\ pc = "done"
    /\ mmmaxTxnOps = 2
    /\ \E r \in RevsSeen :
          /\ Cardinality(PosOfRev(r)) = 3
          /\ OneResponse(PosOfRev(r))
          /\ Cardinality(TxnsOfRev(r)) = 2
    /\ Len(Committed[1].ops) = 2

\* ------------------------------------------------------------------ C3
\* C3: once the watch has started, the committed transactions in commit
\* order followed by the pending group are exactly the operations of the
\* events classified so far, in arrival order.
C3_OrderPreserved ==
    syncUpdates =>
        Flatten(Committed) \o ops = ExpectedOps(mmprefix, mmdestprefix)

\* a forced split inside one revision: max-txn-ops = 1, two events of one
\* revision and of different kinds, the first committed, the second pending
C3_Witness ==
    /\ pc = "events"
    /\ mmmaxTxnOps = 1
    /\ Len(classified) = 2
    /\ classified[1].ev.rev = classified[2].ev.rev
    /\ classified[1].ev.typ # classified[2].ev.typ
    /\ Len(Committed) = 1
    /\ Len(ops) = 1

\* ------------------------------------------------------------------ C4
\* C4: a step that receives a response with CompactRevision != 0 ends the
\* run with the compaction error, and from that step on no Put and no Txn
\* is issued and the counter does not change.
C4_CompactionStops ==
    [][signal' => /\ pc' = "aborted"
                  /\ err' = "ErrCompacted"
                  /\ calls' = calls
                  /\ total' = total]_vars

\* a compaction notice that came after a snapshot Put and a commit
C4_Witness ==
    /\ signal
    /\ pc = "aborted"
    /\ err = "ErrCompacted"
    /\ Len(OkPuts) >= 1
    /\ Len(Committed) >= 1

\* ------------------------------------------------------------------ C5
\* C5 as stated: when --dest-prefix is not given and --no-dest-prefix is
\* not set, every key written to the target (snapshot Put, Put and Delete
\* of a transaction) is the source key, whatever the starting revision.
C5_IdentityMapping ==
    (destFlag = <<>> /\ ~mmnodestprefix) =>
        /\ \A i \in 1 .. Len(PutCalls) :
              PutCalls[i].ops[1].key = chunks[i].key
        /\ LET written == Flatten(Committed) \o ops
           IN  \A i \in 1 .. Len(written) :
                  i <= Len(classified) => written[i].key = classified[i].ev.key

\* ------------------------------------------------------------------ C6
\* C6 as stated: for every starting revision other than 0 the snapshot
\* phase is skipped: SyncBase is not called and no Put is issued.
C6_SkipWhenNonZero ==
    mmrev # 0 => (~syncBase /\ pc # "snapshot" /\ PutCalls = <<>>)

\* ------------------------------------------------------------------ C7
\* C7: in a snapshot phase the counter equals the number of successful
\* Puts at every point, and while no Put failed there is exactly one Put,
\* with the mapped key and the pair's value, for each pair handled; when
\* the phase ends every pair delivered has been put.
C7_SnapshotPuts ==
    syncBase =>
        /\ ~syncUpdates => total = Len(OkPuts)
        /\ (\A i \in 1 .. Len(PutCalls) : Succeeded(PutCalls[i])) =>
              /\ Len(PutCalls) = Len(chunks) - Len(kvs)
              /\ \A i \in 1 .. Len(PutCalls) :
                    PutCalls[i].ops =
                        <<[t |-> "put",
                           key |-> Replace1(chunks[i].key, mmprefix, mmdestprefix),
                           val |-> chunks[i].val]>>
              /\ syncUpdates => Len(PutCalls) = Len(chunks)

\* a snapshot of two pairs, mapped to another prefix, fully put
C7_Witness ==
    /\ syncBase
    /\ syncUpdates
    /\ mmprefix # mmdestprefix
    /\ Len(chunks) = 2
    /\ Len(OkPuts) = 2
    /\ total = 2

\* ------------------------------------------------------------------ C8
\* C8: only the last call issued to the target can have failed, and when
\* it has, the run is aborted with the error of that call: nothing is
\* issued after a rejected Put or Txn.
C8_FailFast ==
    /\ \A i \in 1 .. (Len(calls) - 1) : Succeeded(calls[i])
    /\ (calls # <<>> /\ ~Succeeded(calls[Len(calls)])) =>
          /\ pc = "aborted"
          /\ err = calls[Len(calls)].err

\* a commit rejected after a snapshot Put that succeeded
C8_Witness ==
    /\ pc = "aborted"
    /\ Len(calls) = 2
    /\ IsOkPut(calls[1])
    /\ IsTxn(calls[2])
    /\ calls[2].ops # <<>>
    /\ calls[2].err = "ErrTarget2"
    /\ err = "ErrTarget2"

\* ------------------------------------------------------------------ C9
\* C9: when the error signal read after the snapshot is not nil, the run
\* is aborted with that error, SyncUpdates is never called and no Txn is
\* issued.
C9_SourceErrorAborts ==
    srcErr # "" =>
        /\ pc = "aborted"
        /\ err = srcErr
        /\ ~syncUpdates
        /\ TxnCalls = <<>>

\* the source reports an error after a snapshot whose Puts all succeeded
C9_Witness ==
    /\ srcErr = "ErrSource2"
    /\ err = "ErrSource2"
    /\ Len(chunks) = 2
    /\ Len(OkPuts) = 2
    /\ kvs = <<>>

\* ----------------------------------------------------------------- C10
\* C10: the counter equals the successful snapshot Puts plus the events
\* classified so far, and is never less than the number of operations the
\* target applied.
C10_CounterCountsClassified ==
    /\ total = Len(OkPuts) + Len(classified)
    /\ total >= Len(Flatten(SelectSeq(calls, Succeeded)))

\* a rejected commit leaves the counter above what the target applied
C10_Witness ==
    /\ pc = "aborted"
    /\ calls # <<>>
    /\ IsTxn(calls[Len(calls)])
    /\ ~Succeeded(calls[Len(calls)])
    /\ Len(OkPuts) = 1
    /\ Len(classified) = 1
    /\ total = 2
    /\ Len(Flatten(SelectSeq(calls, Succeeded))) = 1

\* ----------------------------------------------------------------- C11
\* the next event of the response is neither a PUT nor a DELETE
AtUnknownKind ==
    /\ pc = "events"
    /\ evs # <<>>
    /\ Head(evs).typ \notin {"PUT", "DELETE"}

\* C11: when an event that is neither PUT nor DELETE is reached, the step
\* that examines it ends the run (panic, or the error of a commit issued
\* on the way): no operation is derived from it (committed and pending
\* operations together are unchanged), the counter is not incremented, the
\* event is not passed, no further response is consumed; a run that ended
\* this way takes no further step, and every classified event is a PUT or
\* a DELETE.
C11_UnknownKindAborts ==
    /\ [](\A i \in 1 .. Len(classified) :
            classified[i].ev.typ \in {"PUT", "DELETE"})
    /\ [][AtUnknownKind =>
               /\ pc' \in {"panic", "aborted"}
               /\ total' = total
               /\ classified' = classified
               /\ evs' = evs
               /\ fuel' = fuel
               /\ Flatten(Committed') \o ops' = Flatten(Committed) \o ops]_vars
    /\ [][pc = "panic" => UNCHANGED vars]_vars

\* an event was mirrored, then an unknown kind stopped the run after the
\* commit of the pending group at the revision boundary
C11_Witness ==
    /\ pc = "panic"
    /\ Len(classified) = 1
    /\ Len(Committed) = 1
    /\ total = 1
    /\ evs # <<>>
    /\ Head(evs).typ = "OTHER"

\* ----------------------------------------------------------------- C12
\* C12 as stated: when --no-dest-prefix and a non-empty --dest-prefix are
\* both set, the run is rejected before any network call: no client of
\* either cluster is created and no snapshot, watch, Put or Txn is issued.
C12_RejectedBeforeNetwork ==
    (mmnodestprefix /\ destFlag # <<>>) =>
        /\ clients = 0
        /\ ~syncBase
        /\ ~syncUpdates
        /\ calls = <<>>
        /\ pc \in {"cmd", "mirror", "exit"}

\* ----------------------------------------------------------------- C13
\* C13 as stated: the start revision handed to the syncer is R - 1 for a
\* starting revision R >= 1 and 0 for R <= 0; it is never negative.
C13_StartRevClamped ==
    Started =>
        /\ mmrev >= 1 => startRev = mmrev - 1
        /\ mmrev <= 0 => startRev = 0
        /\ startRev >= 0

\* ----------------------------------------------------------------- C14
\* C14 as stated: for every accepted max-txn-ops, 0 included, no committed
\* transaction holds more than max-txn-ops operations and the pending
\* group never holds more than max-txn-ops operations.
C14_WithinLimit ==
    /\ Len(ops) <= mmmaxTxnOps
    /\ \A i \in 1 .. Len(Committed) : Len(Committed[i].ops) <= mmmaxTxnOps

\* ----------------------------------------------------------------- C15
\* the last call issued to the target
LastCall == calls[Len(calls)]

\* the run returned without error
C15_DoneState ==
    /\ err = ""
    /\ ops = <<>>
    /\ evs = <<>>
    /\ Flatten(Committed) = ExpectedOps(mmprefix, mmdestprefix)
    /\ ~signal
    /\ \A i \in 1 .. Len(calls) : calls[i].err = ""

\* the run stopped on a fatal condition and carries the error that caused it
C15_AbortedState ==
    \/ pc = "aborted" /\ signal /\ err = "ErrCompacted"
    \/ /\ pc = "aborted"
       /\ ~signal
       /\ calls # <<>>
       /\ LastCall.err # ""
       /\ err = LastCall.err
    \/ /\ pc = "panic"
       /\ err = "unexpected event type"
       /\ evs # <<>>
       /\ Head(evs).typ \notin {"PUT", "DELETE"}

\* C15: the run reaches Done only by the closing of the stream, from the
\* state that waits for the next response, and then every operation derived
\* from a classified event is committed and the pending group is empty;
\* under fairness the run terminates, and it terminates in Done unless a
\* response was compacted, an event was of unknown kind or a commit failed,
\* in which case it ends aborted with the error of that cause.
C15_DoneOnlyAfterClose ==
    /\ [](pc = "done" => C15_DoneState)
    /\ [](pc \in {"aborted", "panic"} => C15_AbortedState)
    /\ [][(pc' = "done" /\ pc # "done") => (pc = "watch" /\ ops = <<>>)]_vars
    /\ <>(pc \in {"done", "aborted", "panic"})
    /\ [][(pc \in {"done", "aborted", "panic"}) => (vars' = vars)]_vars

\* the stream closed after three events were mirrored, the last of them
\* committed by the commit at the end of its response
C15_Witness ==
    /\ pc = "done"
    /\ Len(classified) = 3
    /\ Len(Committed) >= 2
    /\ Flatten(Committed) = ExpectedOps(mmprefix, mmdestprefix)

\* ----------------------------------------------------------------- C16
\* what holds of the two phases in every state of a run that started from
\* the beginning of history
C16_PhaseOrder ==
    syncBase =>
        /\ \A i, j \in 1 .. Len(calls) :
              (IsTxn(calls[i]) /\ IsPut(calls[j])) => j < i
        /\ ~syncUpdates =>
              /\ TxnCalls = <<>>
              /\ pc \in {"snapshot", "aborted"}
        /\ syncUpdates =>
              /\ kvs = <<>>
              /\ srcErr = ""
              /\ Len(PutCalls) = Len(chunks)
              /\ Len(OkPuts) = Len(chunks)

\* C16: in a run that starts from the beginning of history every snapshot
\* Put is issued before the watch is started and before any Txn; the watch
\* is started only by the step that leaves the drained snapshot stream
\* with the error signal read as no-error, and that step always starts it.
C16_SnapshotThenWatch ==
    /\ []C16_PhaseOrder
    /\ [][(syncBase /\ ~syncUpdates /\ syncUpdates') =>
              (pc = "snapshot" /\ kvs = <<>> /\ srcErr' = "" /\ pc' = "watch")]_vars
    /\ [][(pc = "snapshot" /\ kvs = <<>> /\ pc' # "snapshot" /\ srcErr' = "") =>
              (pc' = "watch" /\ syncUpdates')]_vars

\* one pair was put in the snapshot phase, then one event was committed in
\* the incremental phase
C16_Witness ==
    /\ syncBase
    /\ syncUpdates
    /\ Len(OkPuts) = 1
    /\ Len(Committed) = 1
    /\ pc = "done"

\* ----------------------------------------------------------------- C17
\* C17: whenever the run ends in Done, the counter equals the number of
\* operations applied to the target: the successful snapshot Puts plus the
\* sizes of all committed transactions.
C17_CounterAtDone ==
    pc = "done" => total = Len(OkPuts) + Len(Flatten(Committed))

\* a finished run with one snapshot Put and one committed operation
C17_Witness ==
    /\ pc = "done"
    /\ Len(OkPuts) = 1
    /\ Len(Flatten(Committed)) = 1
    /\ total = 2

\* ----------------------------------------------------------------- C18
\* C18 as stated: whenever the consumer is about to examine the next event,
\* or has reached the end of a response's events, the pending group holds
\* strictly fewer than max-txn-ops operations.
C18_BelowLimitBetweenEvents ==
    pc = "events" => Len(ops) < mmmaxTxnOps

\* C18 amended: the size of the group is tested before the operation of the
\* examined event is added, not after: with max-txn-ops >= 1 the pending
\* group holds at most max-txn-ops operations in every state (it can hold
\* exactly that many while the next event is awaited), and the step that
\* examines an event while the group is full first issues a commit of
\* exactly the pending group.
C18_FlushBeforeAppend ==
    /\ [](mmmaxTxnOps >= 1 => Len(ops) <= mmmaxTxnOps)
    /\ [][(/\ mmmaxTxnOps >= 1
            /\ pc = "events"
            /\ evs # <<>>
            /\ Len(ops) = mmmaxTxnOps) =>
              (/\ Len(calls') > Len(calls)
               /\ IsTxn(calls'[Len(calls) + 1])
               /\ calls'[Len(calls) + 1].ops = ops)]_vars

\* a full group of two operations of one revision is pending, nothing is
\* committed yet, and the next event, of a later revision, is still to be
\* examined
C18_Witness ==
    /\ mmmaxTxnOps = 2
    /\ pc = "events"
    /\ Len(ops) = 2
    /\ TxnCalls = <<>>
    /\ evs # <<>>
    /\ Head(evs).rev > lastRev

\* ----------------------------------------------------------------- C19
\* positions in classified of the events whose operations are pending
PendingPos == (Len(classified) - Len(ops) + 1) .. Len(classified)

\* C19: no transaction mixes two revisions: the classified events whose
\* operations are in one committed transaction all carry the same
\* revision, and so do the events whose operations are in the pending
\* group (which holds the operations of the last classified events).
C19_OneRevisionPerTxn ==
    /\ Flatten(Committed) \o ops = ExpectedOps(mmprefix, mmdestprefix)
    /\ \A i, j \in 1 .. Len(classified) :
          (TxnOfPos(i) # 0 /\ TxnOfPos(i) = TxnOfPos(j)) =>
              classified[i].ev.rev = classified[j].ev.rev
    /\ \A i, j \in PendingPos :
          classified[i].ev.rev = classified[j].ev.rev

\* one response brought two events of one revision and one of the next:
\* the first two were committed together at the revision boundary, the
\* third apart
C19_Witness ==
    /\ mmmaxTxnOps = 2
    /\ pc = "watch"
    /\ Len(classified) = 3
    /\ OneResponse(1 .. 3)
    /\ classified[1].ev.rev = classified[2].ev.rev
    /\ classified[3].ev.rev > classified[2].ev.rev
    /\ Len(Committed) = 2
    /\ Len(Committed[1].ops) = 2
    /\ TxnCalls = Committed

\* ----------------------------------------------------------------- C20
\* C20: whenever the consumer waits for the next response the pending group
\* is empty and every operation derived so far is committed; the group and
\* its revision are reset when a response is received; with max-txn-ops
\* >= 1 no commit ever issued is empty.
C20_EmptyBetweenBatches ==
    /\ [](pc = "watch" =>
            /\ ops = <<>>
            /\ Flatten(Committed) = ExpectedOps(mmprefix, mmdestprefix))
    /\ [][(pc = "watch" /\ pc' = "events") =>
              (ops' = <<>> /\ lastRev' = 0)]_vars
    /\ [](mmmaxTxnOps >= 1 =>
            \A i \in 1 .. Len(TxnCalls) : TxnCalls[i].ops # <<>>)

\* two responses of one event each were received and committed one after
\* the other, and the consumer waits for a third
C20_Witness ==
    /\ pc = "watch"
    /\ mmmaxTxnOps >= 1
    /\ Len(classified) = 2
    /\ classified[2].first
    /\ Len(Committed) = 2
    /\ ops = <<>>

TypeOK ==
    /\ pc \in {"cmd", "mirror", "snapshot", "watch", "events", "done",
               "aborted", "exit", "panic"}
    /\ total \in Nat
    /\ startRev \in Nat
====
